---- MODULE Spec2Model ----
(***************************************************************************)
(* Chunked retrieval loop of the PDF question-answering front-ends.        *)
(*                                                                         *)
(*   variant = "split"  : split_text_into_chunks, run statement by         *)
(*                        statement on arbitrary arguments                 *)
(*   variant = "app"    : app.py, the "Get Answer" handler                 *)
(*   variant = "portal" : test.py, the gated student portal                *)
(*                                                                         *)
(* Representation of text.                                                 *)
(*   A document text matters to the code only through text.split(): it is  *)
(*   modelled by its number of words n, the words being the positions      *)
(*   0 .. n-1.  A chunk ' '.join(tokens[start:end]) is the slice of        *)
(*   positions <<lo, hi>> (lo included, hi excluded) Python selects; the   *)
(*   words of split() carry no whitespace, so splitting the joined chunk   *)
(*   gives back exactly hi - lo words.                                     *)
(*   Short strings (questions, model responses, the displayed answer) are  *)
(*   sequences of atoms; an atom is a piece of text that is never cut.     *)
(***************************************************************************)
EXTENDS Integers, Sequences, FiniteSets, TLC

VARIABLES
    variant,        \* which program this behaviour runs
    pc,             \* position of the running script / function
    \* ---- split_text_into_chunks (statement level) ----
    tokens,         \* len(tokens)
    max_tokens,     \* parameter max_tokens
    overlap,        \* parameter overlap
    start,          \* local start
    chunks,         \* local chunks; in the handlers: the chunk list iterated
    \* ---- handlers ----
    question,       \* value of the question text input in this run
    ci,             \* position of the for loop in chunks (1-based)
    response,       \* local response
    answer_found,   \* local answer_found
    final_answer,   \* app.py local final_answer
    session_state,  \* test.py st.session_state
    pdf_words,      \* test.py: number of words of each file of pdf_files
    reset_clicked,  \* test.py: this run was triggered by the Reset button
    queries,        \* history: the model queries issued for this question
    answer_from     \* history: the queries whose responses make up the answer

vars == <<variant, pc, tokens, max_tokens, overlap, start, chunks, question, ci,
          response, answer_found, final_answer, session_state, pdf_words,
          reset_clicked, queries, answer_from>>

-----------------------------------------------------------------------------
(* Bounds of the statement-level splitter runs.                            *)

MaxLen == 6
MaxW == 4
MaxO == 5
MaxIter == 8

-----------------------------------------------------------------------------
(* Arithmetic helpers.                                                     *)

Min(a, b) == IF a < b THEN a ELSE b

Max(a, b) == IF a < b THEN b ELSE a

\* ceil(a / b) for b > 0 and any integer a
CeilDiv(a, b) == IF a >= 0 THEN (a + b - 1) \div b ELSE 0 - ((0 - a) \div b)

Last(s) == s[Len(s)]

-----------------------------------------------------------------------------
(* Short strings as sequences of atoms.                                    *)

None == <<"<None>">>

Space == " "

\* str.strip(): drop leading and trailing whitespace
RECURSIVE LStrip(_)
LStrip(s) == IF s # <<>> /\ Head(s) = Space THEN LStrip(Tail(s)) ELSE s

RECURSIVE RStrip(_)
RStrip(s) ==
    IF s # <<>> /\ s[Len(s)] = Space THEN RStrip(SubSeq(s, 1, Len(s) - 1)) ELSE s

Strip(s) == RStrip(LStrip(s))

\* len(text.split()) of a short string: the number of maximal runs of
\* non-whitespace atoms
estimate_tokens(text) ==
    Cardinality({i \in 1..Len(text) :
                    text[i] # Space /\ (i = 1 \/ text[i - 1] = Space)})

\* (marker, atom) pairs such that marker is a substring of atom
SubstringOf ==
    { <<"Sorry", "Sorry, the text does not say.">>,
      <<"I don't know", "I don't know.">>,
      <<"I am sorry", "I am sorry.">>,
      <<"I am sorry", "I am sorry. It is not in the text.">>,
      <<"I am sorry.", "I am sorry.">>,
      <<"I am sorry.", "I am sorry. It is not in the text.">> }

\* Python's `marker in text`
Contains(marker, text) ==
    \E i \in 1..Len(text) : <<marker, text[i]>> \in SubstringOf

\* truthiness of a str or None
Truthy(s) == s # <<>> /\ s # None

-----------------------------------------------------------------------------
(* split_text_into_chunks.                                                 *)

DefaultMaxTokens == 16000
DefaultOverlap == 1000
Budget == 16000

\* tokens[a:b] on a list of n words, as the positions <<lo, hi>> selected
PySlice(n, a, b) ==
    LET lo == IF a < 0 THEN Max(n + a, 0) ELSE Min(a, n)
        hi == IF b < 0 THEN Max(n + b, 0) ELSE Min(b, n)
    IN  <<lo, Max(lo, hi)>>

\* number of words of a chunk: estimate_tokens(' '.join(tokens[lo:hi]))
ChunkWords(chunk) == chunk[2] - chunk[1]

\* the loop condition, line 48
WhileStart(st, n) == st < n

\* the chunk appended by one iteration, lines 49-50
ChunkAt(st, n, W) == PySlice(n, st, Min(st + W, n))

\* the window advances by the whole window, losing the overlap
NextStartNoOverlap(st, W, O) == st + W

\* line 51
NextStart(st, W, O) == st + (W - O)

\* the function as a whole, for arguments on which it terminates (O < W)
RECURSIVE SplitFrom(_, _, _, _)
SplitFrom(st, n, W, O) ==
    IF WhileStart(st, n)
    THEN <<ChunkAt(st, n, W)>> \o SplitFrom(NextStart(st, W, O), n, W, O)
    ELSE <<>>

split_text_into_chunks(n, W, O) == SplitFrom(0, n, W, O)

-----------------------------------------------------------------------------
(* Values of the variables a variant does not use.                         *)

InitialSessionState ==
    [is_bousst_student |-> "None", student_id |-> None, answer |-> <<>>,
     current_pdf_index |-> 0]

HandlerIdle ==
    /\ question = <<>>
    /\ ci = 0
    /\ response = <<>>
    /\ answer_found = FALSE
    /\ final_answer = <<>>
    /\ session_state = InitialSessionState
    /\ reset_clicked = FALSE
    /\ queries = <<>>
    /\ answer_from = <<>>

-----------------------------------------------------------------------------
(* variant "split": split_text_into_chunks(text, max_tokens, overlap)      *)
(* executed statement by statement.                                        *)

InitSplit ==
    /\ variant = "split"
    /\ pc = "call"
    /\ tokens \in 0..MaxLen
    /\ max_tokens \in 1..MaxW
    /\ overlap \in 0..MaxO
    /\ start = 0
    /\ chunks = <<>>
    /\ pdf_words = <<>>
    /\ HandlerIdle

\* lines 45-47: tokens = text.split(); chunks = []; start = 0
split_enter ==
    /\ variant = "split"
    /\ pc = "call"
    /\ start' = 0
    /\ chunks' = <<>>
    /\ pc' = "while"
    /\ UNCHANGED <<variant, tokens, max_tokens, overlap, question, ci, response,
                   answer_found, final_answer, session_state, pdf_words,
                   reset_clicked, queries, answer_from>>

\* lines 48-51: one iteration of the while loop.  The loop has no other exit
\* than its condition; the model stops following it after MaxIter chunks.
split_body ==
    /\ variant = "split"
    /\ pc = "while"
    /\ WhileStart(start, tokens)
    /\ Len(chunks) < MaxIter
    /\ chunks' = Append(chunks, ChunkAt(start, tokens, max_tokens))
    /\ start' = NextStart(start, max_tokens, overlap)
    /\ UNCHANGED <<variant, pc, tokens, max_tokens, overlap, question, ci,
                   response, answer_found, final_answer, session_state,
                   pdf_words, reset_clicked, queries, answer_from>>

\* lines 48, 52: the condition fails, return chunks
split_return ==
    /\ variant = "split"
    /\ pc = "while"
    /\ ~WhileStart(start, tokens)
    /\ pc' = "return"
    /\ UNCHANGED <<variant, tokens, max_tokens, overlap, start, chunks, question,
                   ci, response, answer_found, final_answer, session_state,
                   pdf_words, reset_clicked, queries, answer_from>>

NextSplit == split_enter \/ split_body \/ split_return

SpecSplit == InitSplit /\ [][NextSplit]_vars

-----------------------------------------------------------------------------
(* The model-query collaborators.  What the backend does with a prompt is  *)
(* outside the program: each call draws one outcome.                       *)

\* text the local model may put in its "response" field
LocalContents ==
    { <<>>,
      <<"Paris">>,
      <<Space, "Paris", Space>>,
      <<"Sorry, the text does not say.">>,
      <<"I don't know.">> }

LocalOutcomes ==
    {[kind |-> "ok", content |-> c] : c \in LocalContents}
        \cup {[kind |-> "nokey", content |-> <<>>],
              [kind |-> "raise", content |-> <<"timeout">>]}

\* app.py query_local_model: the stripped "response" field, "" when the
\* field is missing, the error text when anything raises (the source
\* prefixes the error text with a cross mark)
query_local_model(o) ==
    CASE o.kind = "ok" -> Strip(o.content)
      [] o.kind = "nokey" -> <<>>
      [] o.kind = "raise" -> <<"Error: ">> \o o.content

\* one entry of the history of queries
\*   ctx, prompt : the kind of context and of prompt of the query
\*   src, ci      : the file of pdf_files and the chunk the context comes from
\*   text, words  : the number of words of the whole text and of the chunk
\*   failed       : the backend call raised
\*   accepted     : the acceptance test of the loop passed on the response
Query(ctx, prompt, src, i, text, words, failed, accepted) ==
    [ctx |-> ctx, prompt |-> prompt, src |-> src, ci |-> i, text |-> text,
     words |-> words, failed |-> failed, accepted |-> accepted]

\* the budget test forgets the question
FitsBudgetChunkOnly(chunk, q) == ChunkWords(chunk) <= Budget

\* lines 103 (app.py), 122 and 142 (test.py)
FitsBudget(chunk, q) == ChunkWords(chunk) + estimate_tokens(q) <= Budget

-----------------------------------------------------------------------------
(* variant "app": app.py                                                   *)

NoFile == 0 - 1

\* number of words extract_text_from_pdf finds in the uploaded file
AppTexts == {0, 5, 15999, 16000, 30500}

Questions == { <<>>, <<Space>>, <<"what">>, <<"what", Space, "where">> }

NotFoundText == <<"I couldn't find a confident answer in the PDF.">>

\* line 106
AcceptLocal(r) == ~Contains("I don't know", r) /\ ~Contains("Sorry", r)

InitApp ==
    /\ variant = "app"
    /\ pc = "idle"
    /\ tokens = 0
    /\ max_tokens = DefaultMaxTokens
    /\ overlap = DefaultOverlap
    /\ start = 0
    /\ chunks = <<>>
    /\ pdf_words = <<>>
    /\ HandlerIdle

\* lines 83-99: one run of the script up to the chunk loop
AppRun(button, q, uploaded_file) ==
    /\ variant = "app"
    /\ pc = "idle"
    /\ question' = q
    /\ response' = <<>>
    /\ answer_found' = FALSE
    /\ final_answer' = <<>>
    /\ queries' = <<>>
    /\ answer_from' = <<>>
    /\ IF button /\ Truthy(q) /\ uploaded_file # NoFile
       THEN /\ tokens' = uploaded_file
            /\ chunks' = split_text_into_chunks(uploaded_file, DefaultMaxTokens,
                                                DefaultOverlap)
            /\ ci' = 1
            /\ pc' = "for"
       ELSE /\ tokens' = 0
            /\ chunks' = <<>>
            /\ ci' = 0
            /\ pc' = "idle"
    /\ UNCHANGED <<variant, max_tokens, overlap, start, session_state,
                   pdf_words, reset_clicked>>

\* lines 102-103: the chunk does not fit the budget, next chunk
AppSkip ==
    /\ variant = "app"
    /\ pc = "for"
    /\ ci <= Len(chunks)
    /\ ~FitsBudget(chunks[ci], question)
    /\ ci' = ci + 1
    /\ UNCHANGED <<variant, pc, tokens, max_tokens, overlap, start, chunks,
                   question, response, answer_found, final_answer,
                   session_state, pdf_words, reset_clicked, queries,
                   answer_from>>

\* lines 102-109: query the model with the chunk, accept or go on
AppQuery(o) ==
    /\ variant = "app"
    /\ pc = "for"
    /\ ci <= Len(chunks)
    /\ FitsBudget(chunks[ci], question)
    /\ response' = query_local_model(o)
    /\ queries' = Append(queries,
                         Query("pdf", "document", 0, ci, tokens,
                               ChunkWords(chunks[ci]),
                               o.kind = "raise", AcceptLocal(response')))
    /\ IF AcceptLocal(response')
       THEN /\ final_answer' = response'
            /\ answer_from' = <<Len(queries')>>
            /\ answer_found' = TRUE
            /\ pc' = "endfor"
            /\ ci' = ci
       ELSE /\ ci' = ci + 1
            /\ UNCHANGED <<final_answer, answer_from, answer_found, pc>>
    /\ UNCHANGED <<variant, tokens, max_tokens, overlap, start, chunks, question,
                   session_state, pdf_words, reset_clicked>>

\* line 102: no chunk is left
AppEndFor ==
    /\ variant = "app"
    /\ pc = "for"
    /\ ci > Len(chunks)
    /\ pc' = "endfor"
    /\ UNCHANGED <<variant, tokens, max_tokens, overlap, start, chunks, question,
                   ci, response, answer_found, final_answer, session_state,
                   pdf_words, reset_clicked, queries, answer_from>>

\* lines 112-117: the fallback message and the display
AppDisplay ==
    /\ variant = "app"
    /\ pc = "endfor"
    /\ final_answer' = IF ~Truthy(final_answer) THEN NotFoundText ELSE final_answer
    /\ answer_from' = IF ~Truthy(final_answer) THEN <<>> ELSE answer_from
    /\ pc' = "idle"
    /\ UNCHANGED <<variant, tokens, max_tokens, overlap, start, chunks, question,
                   ci, response, answer_found, session_state, pdf_words,
                   reset_clicked, queries>>

NextApp ==
    \/ \E button \in BOOLEAN, q \in Questions, f \in AppTexts \cup {NoFile} :
          AppRun(button, q, f)
    \/ AppSkip
    \/ \E o \in LocalOutcomes : AppQuery(o)
    \/ AppEndFor
    \/ AppDisplay

SpecApp == InitApp /\ [][NextApp]_vars

-----------------------------------------------------------------------------
(* variant "portal": test.py                                               *)

NumPdf == 4

PyNone == "None"
PyTrue == "True"
PyFalse == "False"

\* number of words extract_text_from_pdf finds in a file of pdf_files
PdfTexts == {0, 5, 30500}

\* what scrape_websites returns: None, or the number of words of the text
\* (0: a text of newlines only, which is a true value)
NoText == 0 - 1
ScrapedTexts == {NoText, 0, 5, 30500}

StudentResponses == { <<>>, <<"Yes">>, <<"yes">>, <<"No">>, <<"maybe">> }

IdTexts == { <<>>, <<"123">> }

\* str.lower()
Lower(s) ==
    [i \in 1..Len(s) |->
        CASE s[i] = "Yes" -> "yes" [] s[i] = "No" -> "no" [] OTHER -> s[i]]

IAmSorry == <<"I am sorry.">>

\* text the hosted model may return as message content
GptContents ==
    { <<>>,
      <<"Dhaka">>,
      IAmSorry,
      <<Space, "I am sorry.", Space>>,
      <<"I am sorry. It is not in the text.">> }

GptOutcomes ==
    {[kind |-> "ok", content |-> c] : c \in GptContents}
        \cup {[kind |-> "raise", content |-> <<"timeout">>]}

\* test.py query_gpt: the stripped message content, the error text when the
\* call raises
query_gpt(o) ==
    CASE o.kind = "ok" -> Strip(o.content)
      [] o.kind = "raise" -> <<"Error: ">> \o o.content

\* the question input is shown without the gate
ShowQuestionUngated(is_student, student_id) == TRUE

\* line 106
ShowQuestion(is_student, student_id) == is_student = PyTrue /\ Truthy(student_id)

\* line 126
AcceptPdf(r) == r # IAmSorry

\* line 145
AcceptScraped(r) == Truthy(r) /\ r # IAmSorry

\* line 149
AskTime(r) == r = IAmSorry

\* the while loop is not left after the for loop broke
BreakPdfLoopNever(found) == FALSE

\* line 131
BreakPdfLoop(found) == found

\* line 154
NeedFallback(found, answer) == ~found /\ answer = <<>>

InitPortal ==
    /\ variant = "portal"
    /\ pc = "idle"
    /\ tokens = 0
    /\ max_tokens = DefaultMaxTokens
    /\ overlap = DefaultOverlap
    /\ start = 0
    /\ chunks = <<>>
    /\ pdf_words \in [1..NumPdf -> PdfTexts]
    /\ HandlerIdle

\* lines 163-168, Reset pressed
ResetState(ss, clicked) == IF clicked THEN InitialSessionState ELSE ss

\* lines 79-113 and, when no question is handled, 159-169: one run of the
\* script with the current values of its widgets
RunScript(student_response, id_text, q, reset) ==
    LET ss == session_state
        asked == ss.is_bousst_student = PyNone
        stopped == asked /\ Lower(student_response) = <<"no">>
        is1 == IF asked /\ Lower(student_response) = <<"yes">> THEN PyTrue
               ELSE IF stopped THEN PyFalse
               ELSE ss.is_bousst_student
        sid == IF is1 = PyTrue THEN id_text ELSE ss.student_id
        ss1 == [ss EXCEPT !.is_bousst_student = is1, !.student_id = sid]
    IN
    /\ variant = "portal"
    /\ pc = "idle"
    /\ IF stopped
       THEN \* lines 94-96: st.stop() ends the run before the Reset button
            /\ session_state' = ss1
            /\ UNCHANGED <<pc, question, reset_clicked>>
       ELSE IF ShowQuestion(is1, sid) /\ Truthy(q)
       THEN \* lines 110-113
            /\ session_state' = [ss1 EXCEPT !.current_pdf_index = 0,
                                            !.answer = <<>>]
            /\ question' = q
            /\ reset_clicked' = reset
            /\ pc' = "pdf_while"
       ELSE /\ session_state' = ResetState(ss1, reset)
            /\ UNCHANGED <<pc, question, reset_clicked>>
    /\ answer_found' = FALSE
    /\ queries' = <<>>
    /\ answer_from' = <<>>
    /\ UNCHANGED <<variant, tokens, max_tokens, overlap, start, chunks, ci,
                   response, final_answer, pdf_words>>

\* lines 116-121: the while condition; extract and split the next file
PdfWhile ==
    /\ variant = "portal"
    /\ pc = "pdf_while"
    /\ IF session_state.current_pdf_index < NumPdf
       THEN /\ tokens' = pdf_words[session_state.current_pdf_index + 1]
            /\ chunks' = split_text_into_chunks(tokens', DefaultMaxTokens,
                                                DefaultOverlap)
            /\ ci' = 1
            /\ pc' = "pdf_for"
       ELSE /\ pc' = "after_pdf"
            /\ UNCHANGED <<tokens, chunks, ci>>
    /\ UNCHANGED <<variant, max_tokens, overlap, start, question, response,
                   answer_found, final_answer, session_state, pdf_words,
                   reset_clicked, queries, answer_from>>

\* lines 121-122: the chunk does not fit the budget, next chunk
PdfSkip ==
    /\ variant = "portal"
    /\ pc = "pdf_for"
    /\ ci <= Len(chunks)
    /\ ~FitsBudget(chunks[ci], question)
    /\ ci' = ci + 1
    /\ UNCHANGED <<variant, pc, tokens, max_tokens, overlap, start, chunks,
                   question, response, answer_found, final_answer,
                   session_state, pdf_words, reset_clicked, queries,
                   answer_from>>

\* lines 121-129: query the model with the chunk, accept or go on
PdfQuery(o) ==
    /\ variant = "portal"
    /\ pc = "pdf_for"
    /\ ci <= Len(chunks)
    /\ FitsBudget(chunks[ci], question)
    /\ response' = query_gpt(o)
    /\ queries' = Append(queries,
                         Query("pdf", "document",
                               session_state.current_pdf_index + 1, ci,
                               tokens, ChunkWords(chunks[ci]),
                               o.kind = "raise",
                               AcceptPdf(response')))
    /\ IF AcceptPdf(response')
       THEN /\ session_state' = [session_state EXCEPT !.answer = response']
            /\ answer_from' = <<Len(queries')>>
            /\ answer_found' = TRUE
            /\ pc' = "pdf_endfor"
            /\ ci' = ci
       ELSE /\ ci' = ci + 1
            /\ UNCHANGED <<session_state, answer_from, answer_found, pc>>
    /\ UNCHANGED <<variant, tokens, max_tokens, overlap, start, chunks, question,
                   final_answer, pdf_words, reset_clicked>>

\* line 121: no chunk of this file is left
PdfEndFor ==
    /\ variant = "portal"
    /\ pc = "pdf_for"
    /\ ci > Len(chunks)
    /\ pc' = "pdf_endfor"
    /\ UNCHANGED <<variant, tokens, max_tokens, overlap, start, chunks, question,
                   ci, response, answer_found, final_answer, session_state,
                   pdf_words, reset_clicked, queries, answer_from>>

\* lines 131-134: leave the while loop, or go to the next file
PdfNext ==
    /\ variant = "portal"
    /\ pc = "pdf_endfor"
    /\ IF BreakPdfLoop(answer_found)
       THEN /\ pc' = "after_pdf"
            /\ UNCHANGED session_state
       ELSE /\ pc' = "pdf_while"
            /\ session_state' =
                 [session_state EXCEPT !.current_pdf_index = @ + 1]
    /\ UNCHANGED <<variant, tokens, max_tokens, overlap, start, chunks, question,
                   ci, response, answer_found, final_answer, pdf_words,
                   reset_clicked, queries, answer_from>>

\* lines 137-141: scrape the websites when no file gave an answer
Scrape(scraped_data) ==
    /\ variant = "portal"
    /\ pc = "after_pdf"
    /\ IF ~answer_found /\ scraped_data # NoText
       THEN /\ tokens' = scraped_data
            /\ chunks' = split_text_into_chunks(scraped_data, DefaultMaxTokens,
                                                DefaultOverlap)
            /\ ci' = 1
            /\ pc' = "scrape_for"
       ELSE /\ pc' = "fallback"
            /\ UNCHANGED <<tokens, chunks, ci>>
    /\ UNCHANGED <<variant, max_tokens, overlap, start, question, response,
                   answer_found, final_answer, session_state, pdf_words,
                   reset_clicked, queries, answer_from>>

\* lines 141-142: the scraped chunk does not fit the budget, next chunk
ScrapeSkip ==
    /\ variant = "portal"
    /\ pc = "scrape_for"
    /\ ci <= Len(chunks)
    /\ ~FitsBudget(chunks[ci], question)
    /\ ci' = ci + 1
    /\ UNCHANGED <<variant, pc, tokens, max_tokens, overlap, start, chunks,
                   question, response, answer_found, final_answer,
                   session_state, pdf_words, reset_clicked, queries,
                   answer_from>>

\* lines 141-149: query the model with the scraped chunk
ScrapeQuery(o) ==
    /\ variant = "portal"
    /\ pc = "scrape_for"
    /\ ci <= Len(chunks)
    /\ FitsBudget(chunks[ci], question)
    /\ response' = query_gpt(o)
    /\ queries' = Append(queries,
                         Query("scrape", "scraped", 0, ci, tokens,
                               ChunkWords(chunks[ci]), o.kind = "raise",
                               AcceptScraped(response')))
    /\ IF AcceptScraped(response')
       THEN /\ session_state' =
                 [session_state EXCEPT !.answer = @ \o <<"\n\n">> \o response']
            /\ answer_from' = Append(answer_from, Len(queries'))
            /\ answer_found' = TRUE
            /\ pc' = "fallback"
            /\ ci' = ci
       ELSE IF AskTime(response')
       THEN /\ pc' = "time"
            /\ UNCHANGED <<session_state, answer_from, answer_found, ci>>
       ELSE /\ ci' = ci + 1
            /\ UNCHANGED <<session_state, answer_from, answer_found, pc>>
    /\ UNCHANGED <<variant, tokens, max_tokens, overlap, start, chunks, question,
                   final_answer, pdf_words, reset_clicked>>

\* lines 149-151: the answer becomes the reply to "What is the current time?"
TimeQuery(o) ==
    /\ variant = "portal"
    /\ pc = "time"
    /\ queries' = Append(queries,
                         Query("none", "time", 0, 0, 0, 0, o.kind = "raise",
                               FALSE))
    /\ session_state' = [session_state EXCEPT !.answer = query_gpt(o)]
    /\ answer_from' = <<Len(queries')>>
    /\ ci' = ci + 1
    /\ pc' = "scrape_for"
    /\ UNCHANGED <<variant, tokens, max_tokens, overlap, start, chunks, question,
                   response, answer_found, final_answer, pdf_words,
                   reset_clicked>>

\* line 141: no scraped chunk is left
ScrapeEndFor ==
    /\ variant = "portal"
    /\ pc = "scrape_for"
    /\ ci > Len(chunks)
    /\ pc' = "fallback"
    /\ UNCHANGED <<variant, tokens, max_tokens, overlap, start, chunks, question,
                   ci, response, answer_found, final_answer, session_state,
                   pdf_words, reset_clicked, queries, answer_from>>

\* lines 154-156: the general query without context
FallbackQuery(o) ==
    /\ variant = "portal"
    /\ pc = "fallback"
    /\ NeedFallback(answer_found, session_state.answer)
    /\ queries' = Append(queries,
                         Query("none", "general", 0, 0, 0, 0, o.kind = "raise",
                               FALSE))
    /\ session_state' = [session_state EXCEPT !.answer = query_gpt(o)]
    /\ answer_from' = <<Len(queries')>>
    /\ pc' = "display"
    /\ UNCHANGED <<variant, tokens, max_tokens, overlap, start, chunks, question,
                   ci, response, answer_found, final_answer, pdf_words,
                   reset_clicked>>

\* line 154: the condition fails
FallbackSkip ==
    /\ variant = "portal"
    /\ pc = "fallback"
    /\ ~NeedFallback(answer_found, session_state.answer)
    /\ pc' = "display"
    /\ UNCHANGED <<variant, tokens, max_tokens, overlap, start, chunks, question,
                   ci, response, answer_found, final_answer, session_state,
                   pdf_words, reset_clicked, queries, answer_from>>

\* lines 159-169: display the answer; Reset; the run ends and its locals go
FinishRun ==
    /\ variant = "portal"
    /\ pc = "display"
    /\ session_state' = ResetState(session_state, reset_clicked)
    /\ reset_clicked' = FALSE
    /\ pc' = "idle"
    /\ tokens' = 0
    /\ chunks' = <<>>
    /\ ci' = 0
    /\ question' = <<>>
    /\ response' = <<>>
    /\ answer_found' = FALSE
    /\ queries' = <<>>
    /\ answer_from' = <<>>
    /\ UNCHANGED <<variant, max_tokens, overlap, start, final_answer, pdf_words>>

NextPortal ==
    \/ \E sr \in StudentResponses, id \in IdTexts, q \in Questions,
          reset \in BOOLEAN : RunScript(sr, id, q, reset)
    \/ PdfWhile
    \/ PdfSkip
    \/ \E o \in GptOutcomes : PdfQuery(o)
    \/ PdfEndFor
    \/ PdfNext
    \/ \E sd \in ScrapedTexts : Scrape(sd)
    \/ ScrapeSkip
    \/ \E o \in GptOutcomes : ScrapeQuery(o)
    \/ \E o \in GptOutcomes : TimeQuery(o)
    \/ ScrapeEndFor
    \/ \E o \in GptOutcomes : FallbackQuery(o)
    \/ FallbackSkip
    \/ FinishRun

SpecPortal == InitPortal /\ [][NextPortal]_vars

-----------------------------------------------------------------------------
(* All three programs.                                                     *)

Init == InitSplit \/ InitApp \/ InitPortal

Next == NextSplit \/ NextApp \/ NextPortal

Spec == Init /\ [][Next]_vars

-----------------------------------------------------------------------------
(* Properties.                                                             *)

Range(s) == {s[i] : i \in 1..Len(s)}

\* the refusal markers of each variant's prompt and acceptance test
RefusalMarkers ==
    IF variant = "app" THEN {"I don't know", "Sorry"} ELSE {"I am sorry."}

HasRefusalMarker(r) == \E m \in RefusalMarkers : Contains(m, r)

InPdfLoop == pc \in {"pdf_while", "pdf_for", "pdf_endfor"}

\* C1: in both variants, once the acceptance test of the loop has passed on
\* a response, no further query is issued for that question: an accepted
\* query is always the last query of the history.
C1_StopAtFirstAccepted ==
    \A i \in 1..Len(queries) : queries[i].accepted => i = Len(queries)

\* a PDF chunk was accepted while later chunks and later files remained, and
\* the handler ran to its end
C1_Witness ==
    /\ variant = "portal"
    /\ pc = "display"
    /\ Len(queries) >= 2
    /\ Last(queries).accepted
    /\ Last(queries).ctx = "pdf"
    /\ ci < Len(chunks)
    /\ session_state.current_pdf_index < NumPdf - 1

\* C2: a query whose backend call failed counts as rejected: it is never
\* accepted and its error text never becomes the answer.
C2_FailureIsRejected ==
    \A i \in 1..Len(queries) :
        queries[i].failed =>
            ~queries[i].accepted /\ i \notin Range(answer_from)

\* C3: called with overlap >= max_tokens on a non-empty text, the splitter
\* fails at once: it appends no chunk and returns no chunk list.
C3_InvalidConfigurationFailsFast ==
    (variant = "split" /\ overlap >= max_tokens /\ tokens > 0)
        => (chunks = <<>> /\ pc # "return")

\* C4: the acceptance decision on the response of a chunk query accepts
\* exactly the non-empty responses that contain no refusal marker.
C4_AcceptanceDecision ==
    (Len(queries) > 0 /\ Last(queries).ctx \in {"pdf", "scrape"})
        => (Last(queries).accepted
                <=> (response # <<>> /\ ~HasRefusalMarker(response)))

\* C5: the answer shown is made of the response of at most one query.
C5_AtMostOneResponse == Len(answer_from) <= 1

\* C6: in the portal no scraped chunk is queried while the files are still
\* being searched, and no query without context is issued while a scraped
\* chunk is still to be examined.
C6_PriorityOrder ==
    /\ (\E i \in 1..Len(queries) : queries[i].ctx = "scrape") => ~InPdfLoop
    /\ (\E i \in 1..Len(queries) : queries[i].ctx = "none")
          => ~(pc = "scrape_for" /\ ci <= Len(chunks))

C8_ExactlyOneFallback ==
    (variant = "portal" /\ pc = "display" /\ ~answer_found)
        => /\ Cardinality({i \in 1..Len(queries) : queries[i].ctx = "none"}) = 1
           /\ Last(queries).prompt = "general"
           /\ answer_from = <<Len(queries)>>

\* C9: in the portal a query is issued only while session state holds
\* is_bousst_student = True and a non-empty student_id; once the user has
\* answered "No" the flag stays False until Reset puts it back to None.
C9_QueriesOnlyBehindGate ==
    [][/\ Len(queries') > Len(queries)
            => /\ session_state.is_bousst_student = PyTrue
               /\ Truthy(session_state.student_id)
       /\ session_state.is_bousst_student = PyFalse
            => /\ queries' = <<>>
               /\ session_state'.is_bousst_student \in {PyFalse, PyNone}]_vars

\* a query has been issued in a run of the portal, behind the gate
C9_Witness ==
    /\ variant = "portal"
    /\ Len(queries) > 0
    /\ session_state.is_bousst_student = PyTrue
    /\ Truthy(session_state.student_id)

\* C10: for a question of at least one word no full window of
\* DefaultMaxTokens words is ever queried: a queried chunk has at most
\* Budget - estimate_tokens(question) words, and the first chunk of a text
\* longer than the window is skipped.
C10_FullWindowNeverQueried ==
    estimate_tokens(question) >= 1 =>
        \A i \in 1..Len(queries) :
            queries[i].ctx \in {"pdf", "scrape"} =>
                /\ queries[i].words < DefaultMaxTokens
                /\ queries[i].words <= Budget - estimate_tokens(question)
                /\ queries[i].text > DefaultMaxTokens => queries[i].ci # 1

\* a later chunk of a text longer than the window was queried for a
\* question of at least one word
C10_Witness ==
    /\ estimate_tokens(question) >= 1
    /\ \E i \in 1..Len(queries) :
          /\ queries[i].ctx \in {"pdf", "scrape"}
          /\ queries[i].text > DefaultMaxTokens
          /\ queries[i].ci >= 2

====
